---- MODULE Spec2Model ----
(***************************************************************************)
(* Realtime connection and messaging subsystem of SocialMedia_App:         *)
(* the socket server (session registry), the connection authenticator,     *)
(* the presence tracker and the chat event handlers with the message       *)
(* repository they call.                                                   *)
(***************************************************************************)
EXTENDS Integers, Sequences, FiniteSets, TLC

(* ------------------------------------------------------------------ *)
(* Bounds                                                              *)
(* ------------------------------------------------------------------ *)
MaxSockets == 3
MaxMsgs == 2
MaxInflight == 1
MaxStoreOps == 2
MaxReceipts == 2

Users == {"u1", "u2", "u3"}
Convs == {"c1"}
\* a second stored conversation, used where messages of several
\* conversations must be told apart
AllConvs == Convs \cup {"c2"}
Sockets == 1..MaxSockets

None == "-"

(* ------------------------------------------------------------------ *)
(* Enumerations of the source                                          *)
(* ------------------------------------------------------------------ *)
RoleType == {"user", "admin"}
UserStatus == {"online", "away", "busy", "offline"}
MessageStatus == {"sent", "delivered", "read", "failed"}
MessageType == {"text", "image", "video", "file", "audio", "location"}

\* payloads a client may send with presence:status_change (untyped at run time)
StatusPayloads == UserStatus \cup {"invisible"}

\* handshake credentials: absent, failing jwt.verify, or verifying to an id
Tokens == {[kind |-> "none", id |-> None], [kind |-> "bad", id |-> None]}
            \cup {[kind |-> "valid", id |-> u] : u \in Users}

ErrNoToken == "Authentication error: No token provided"
ErrBadToken == "Authentication error: Invalid or expired token"
ErrNoUser == "Authentication error: User not found"
ErrFrozen == "Authentication error: Account is frozen, please contact support"
ErrDeleted == "Authentication error: Account has been deleted"
ErrNotAuthed == "Authorization error: User not authenticated"
ErrRole == "Authorization error: Insufficient permissions. Required roles: admin"
ErrNotParticipant == "You are not a participant of this conversation"
ErrRequired == "Conversation ID and content are required"
ErrFileUrl == "File URL is required"
ErrContentRequired == "Path content is required."

VARIABLES
  userStore,       \* users collection: id -> document
  sock,            \* every socket: state, namespace, attached principal, rooms
  connectedUsers,  \* server.ts connectedUsers: userId -> ConnectedUser
  userSockets,     \* server.ts userSockets: userId -> Set<socketId>
  userStatuses,    \* presence.events.ts userStatuses: userId -> UserStatus
  conversations,   \* conversations collection: id -> participants, admin
  messages,        \* messages collection, in creation order
  inflight,        \* chat:send_message handlers suspended at an await
  receiptOps,      \* number of receipt handlers run so far
  storeOps,        \* number of REST user-store operations performed so far
  last,            \* the handler that ran in the last step and its result
  emitted          \* the events that handler emitted, in order

vars == <<userStore, sock, connectedUsers, userSockets, userStatuses,
          conversations, messages, inflight, storeOps, receiptOps,
          last, emitted>>

storeVars == <<userStore, storeOps>>
registryVars == <<sock, connectedUsers, userSockets, userStatuses>>
chatVars == <<conversations, messages, inflight, receiptOps>>

(* ------------------------------------------------------------------ *)
(* Helpers for JS Map / Set                                            *)
(* ------------------------------------------------------------------ *)
MapHas(m, k) == k \in DOMAIN m
MapSet(m, k, v) == [x \in (DOMAIN m) \cup {k} |-> IF x = k THEN v ELSE m[x]]
MapDelete(m, k) == [x \in (DOMAIN m) \ {k} |-> m[x]]
EmptyMap == [x \in {} |-> {}]

Op(op, s, u, c, m, cb, reply, writes) ==
  [op |-> op, sock |-> s, user |-> u, conv |-> c, msg |-> m,
   cb |-> cb, reply |-> reply, writes |-> writes, count |-> 0]

\* one emitted event: name, addressed room ("*" all of the namespace, a user
\* id for user:<id>, "socket" for the calling socket), the sockets it is
\* delivered to, payload
Ev(event, room, to, u, status, m, c) ==
  [event |-> event, room |-> room, to |-> to, userId |-> u, status |-> status,
   msg |-> m, conv |-> c]

(* ------------------------------------------------------------------ *)
(* Rooms                                                               *)
(* ------------------------------------------------------------------ *)
\* sockets of a namespace that are connected
NamespaceSockets(sk, ns) == {s \in Sockets : sk[s].st = "open" /\ sk[s].ns = ns}

\* members of room user:<userId>; only the default namespace joins it
UserRoom(sk, ns, userId) ==
  {s \in NamespaceSockets(sk, ns) : ns = "/" /\ sk[s].userId = userId}

ClosedSocket == [st |-> "closed", ns |-> None, userId |-> None, role |-> None, rooms |-> {}]

FreeSocket(s) ==
  /\ sock[s].st = "free"
  /\ \A t \in Sockets : t < s => sock[t].st # "free"

(* ------------------------------------------------------------------ *)
(* Connection authenticator                                            *)
(* ------------------------------------------------------------------ *)
Reject(reason) == [ok |-> FALSE, error |-> reason, userId |-> None, role |-> None]

socketAuthMiddleware(token) ==
  IF token.kind = "none" THEN Reject(ErrNoToken)
  ELSE IF token.kind # "valid" THEN Reject(ErrBadToken)
  ELSE LET user == userStore[token.id] IN
    IF ~user.exists THEN Reject(ErrNoUser)
    ELSE IF user.isFrozen THEN Reject(ErrFrozen)
    ELSE IF user.isDeleted THEN Reject(ErrDeleted)
    ELSE [ok |-> TRUE, error |-> None, userId |-> token.id, role |-> user.role]

socketRoleMiddleware_NoRoleCheck(allowedRoles, auth) ==
  IF ~auth.ok THEN Reject(ErrNotAuthed) ELSE auth

socketRoleMiddleware(allowedRoles, auth) ==
  IF ~auth.ok THEN Reject(ErrNotAuthed)
  ELSE IF auth.role \notin allowedRoles THEN Reject(ErrRole)
  ELSE auth

(* ------------------------------------------------------------------ *)
(* Session registry (server.ts)                                        *)
(* ------------------------------------------------------------------ *)
RegisterSockets(us, userId, s) ==
  MapSet(us, userId, (IF MapHas(us, userId) THEN us[userId] ELSE {}) \cup {s})

RegisterUser(cu, userId, s) ==
  IF ~MapHas(cu, userId)
    THEN MapSet(cu, userId, [socketId |-> s, tabs |-> {s}])
    ELSE MapSet(cu, userId, [cu[userId] EXCEPT !.tabs = @ \cup {s}])

\* disconnect handler, first block: userSockets
DeregisterSockets_KeepEmpty(us, userId, s) ==
  IF MapHas(us, userId) THEN MapSet(us, userId, us[userId] \ {s}) ELSE us

DeregisterSockets(us, userId, s) ==
  IF MapHas(us, userId)
    THEN IF us[userId] \ {s} = {}
           THEN MapDelete(us, userId)
           ELSE MapSet(us, userId, us[userId] \ {s})
    ELSE us

\* disconnect handler: connectedUsers after both blocks
DeregisterUser(cu, us, userId, s) ==
  LET cu1 == IF MapHas(us, userId) /\ us[userId] \ {s} = {}
               THEN MapDelete(cu, userId) ELSE cu
  IN IF MapHas(cu1, userId)
       THEN IF cu1[userId].tabs \ {s} = {}
              THEN MapDelete(cu1, userId)
              ELSE MapSet(cu1, userId, [cu1[userId] EXCEPT !.tabs = @ \ {s}])
       ELSE cu1

isUserOnline(cu, userId) == MapHas(cu, userId)

getUserTabCount(cu, userId) ==
  IF MapHas(cu, userId) THEN Cardinality(cu[userId].tabs) ELSE 0

getOnlineUsers(cu) == DOMAIN cu

(* ------------------------------------------------------------------ *)
(* Initial state                                                       *)
(* ------------------------------------------------------------------ *)
Init ==
  /\ userStore = [u \in Users |->
       [exists |-> TRUE, role |-> IF u = "u1" THEN "admin" ELSE "user",
        accountStatus |-> "active", isFrozen |-> FALSE, isDeleted |-> FALSE]]
  /\ sock = [s \in Sockets |->
       [st |-> "free", ns |-> None, userId |-> None, role |-> None, rooms |-> {}]]
  /\ connectedUsers = EmptyMap
  /\ userSockets = EmptyMap
  /\ userStatuses = EmptyMap
  /\ conversations = [c \in AllConvs |->
       IF c \in Convs
         THEN [participants |-> {"u1", "u2"}, admin |-> {"u1"}]
         ELSE [participants |-> {"u2", "u3"}, admin |-> {"u2"}]]
  /\ messages = <<>>
  /\ inflight = {}
  /\ storeOps = 0
  /\ receiptOps = 0
  /\ last = Op("init", 0, None, None, 0, FALSE, None, 0)
  /\ emitted = <<>>

(* ------------------------------------------------------------------ *)
(* Default namespace: connection and disconnect                        *)
(* ------------------------------------------------------------------ *)
Connect(s, token) ==
  /\ FreeSocket(s)
  /\ LET auth == socketAuthMiddleware(token) IN
     IF ~auth.ok
       THEN /\ last' = Op("connect", 0, token.id, None, 0, FALSE, auth.error, 0)
            /\ UNCHANGED registryVars
       ELSE /\ sock' = [sock EXCEPT ![s] = [st |-> "open", ns |-> "/",
                          userId |-> auth.userId, role |-> auth.role, rooms |-> {}]]
            /\ userSockets' = RegisterSockets(userSockets, auth.userId, s)
            /\ connectedUsers' = RegisterUser(connectedUsers, auth.userId, s)
            /\ UNCHANGED userStatuses
            /\ last' = Op("connect", s, auth.userId, None, 0, FALSE, "ok", 0)
  /\ emitted' = <<>>
  /\ UNCHANGED <<storeVars, chatVars>>

\* presence.events.ts disconnect handler, run after the registry's
PresenceOnDisconnect_Always(cu, userId) == TRUE

PresenceOnDisconnect(cu, userId) == ~isUserOnline(cu, userId)

Disconnect(s) ==
  /\ sock[s].st = "open" /\ sock[s].ns = "/"
  /\ LET userId == sock[s].userId
         us == DeregisterSockets(userSockets, userId, s)
         cu == DeregisterUser(connectedUsers, userSockets, userId, s)
         sk == [sock EXCEPT ![s] = ClosedSocket]
     IN /\ sock' = sk
        /\ userSockets' = us
        /\ connectedUsers' = cu
        /\ IF PresenceOnDisconnect(cu, userId)
             THEN /\ userStatuses' = MapSet(userStatuses, userId, "offline")
                  /\ emitted' = <<Ev("presence:user_status_changed", "*",
                                     NamespaceSockets(sk, "/"), userId,
                                     "offline", 0, None)>>
             ELSE /\ UNCHANGED userStatuses
                  /\ emitted' = <<>>
        /\ last' = Op("disconnect", s, userId, None, 0, FALSE, None, 0)
  /\ UNCHANGED <<storeVars, chatVars>>

(* ------------------------------------------------------------------ *)
(* Presence tracker                                                    *)
(* ------------------------------------------------------------------ *)
StatusChange(s, status) ==
  /\ sock[s].st = "open" /\ sock[s].ns = "/"
  /\ userStatuses' = MapSet(userStatuses, sock[s].userId, status)
  /\ emitted' = <<Ev("presence:user_status_changed", "*", NamespaceSockets(sock, "/"),
                     sock[s].userId, status, 0, None)>>
  /\ last' = Op("presence:status_change", s, sock[s].userId, None, 0, FALSE, None, 0)
  /\ UNCHANGED <<storeVars, chatVars, sock, connectedUsers, userSockets>>

(* ------------------------------------------------------------------ *)
(* Admin namespace                                                     *)
(* ------------------------------------------------------------------ *)
AdminConnect(s, token) ==
  /\ FreeSocket(s)
  /\ LET auth == socketRoleMiddleware({"admin"}, socketAuthMiddleware(token)) IN
     IF ~auth.ok
       THEN /\ last' = Op("admin:connect", 0, token.id, None, 0, FALSE, auth.error, 0)
            /\ UNCHANGED sock
       ELSE /\ sock' = [sock EXCEPT ![s] = [st |-> "open", ns |-> "/admin",
                          userId |-> auth.userId, role |-> auth.role, rooms |-> {}]]
            /\ last' = Op("admin:connect", s, auth.userId, None, 0, FALSE, "ok", 0)
  /\ emitted' = <<>>
  /\ UNCHANGED <<storeVars, chatVars, connectedUsers, userSockets, userStatuses>>

AdminDisconnect(s) ==
  /\ sock[s].st = "open" /\ sock[s].ns = "/admin"
  /\ sock' = [sock EXCEPT ![s] = ClosedSocket]
  /\ last' = Op("admin:disconnect", s, sock[s].userId, None, 0, FALSE, None, 0)
  /\ emitted' = <<>>
  /\ UNCHANGED <<storeVars, chatVars, connectedUsers, userSockets, userStatuses>>

(* ------------------------------------------------------------------ *)
(* User store operations (REST)                                        *)
(* ------------------------------------------------------------------ *)
FreezeAccount(u) ==
  /\ storeOps < MaxStoreOps
  /\ storeOps' = storeOps + 1
  /\ userStore[u].exists /\ userStore[u].accountStatus # "frozen"
  /\ userStore' = [userStore EXCEPT ![u].accountStatus = "frozen"]
  /\ last' = Op("freezeAccount", 0, u, None, 0, FALSE, "ok", 0)
  /\ emitted' = <<>>
  /\ UNCHANGED <<registryVars, chatVars>>

RestoreAccount(u) ==
  /\ storeOps < MaxStoreOps
  /\ storeOps' = storeOps + 1
  /\ userStore[u].exists /\ userStore[u].accountStatus = "frozen"
  /\ userStore' = [userStore EXCEPT ![u].accountStatus = "active"]
  /\ last' = Op("restoreAccount", 0, u, None, 0, FALSE, "ok", 0)
  /\ emitted' = <<>>
  /\ UNCHANGED <<registryVars, chatVars>>

\* admin deleteUser: permanent removes the document; the soft branch assigns
\* isDeleted / deletedAt, paths the user schema does not declare, and saves
DeleteUser(admin, u, permanent) ==
  /\ storeOps < MaxStoreOps
  /\ storeOps' = storeOps + 1
  /\ userStore[admin].exists /\ userStore[admin].role = "admin"
  /\ userStore[admin].accountStatus # "frozen"
  /\ u # admin /\ userStore[u].exists
  /\ userStore' = IF permanent THEN [userStore EXCEPT ![u].exists = FALSE]
                  ELSE userStore
  /\ last' = Op("deleteUser", 0, u, None, 0, FALSE,
                IF permanent THEN "User permanently deleted" ELSE "User soft deleted", 0)
  /\ emitted' = <<>>
  /\ UNCHANGED <<registryVars, chatVars>>

UpdateUserRole(admin, u, role) ==
  /\ storeOps < MaxStoreOps
  /\ storeOps' = storeOps + 1
  /\ userStore[admin].exists /\ userStore[admin].role = "admin"
  /\ userStore[admin].accountStatus # "frozen"
  /\ u # admin /\ userStore[u].exists /\ userStore[u].role # role
  /\ userStore' = [userStore EXCEPT ![u].role = role]
  /\ last' = Op("updateUserRole", 0, u, None, 0, FALSE, "ok", 0)
  /\ emitted' = <<>>
  /\ UNCHANGED <<registryVars, chatVars>>

(* ------------------------------------------------------------------ *)
(* Strings and message documents (message.model.ts)                    *)
(* ------------------------------------------------------------------ *)
SP == " "

RECURSIVE TrimStart(_)
TrimStart(str) ==
  IF str # <<>> /\ Head(str) = SP THEN TrimStart(Tail(str)) ELSE str

RECURSIVE TrimEnd(_)
TrimEnd(str) ==
  IF str # <<>> /\ str[Len(str)] = SP
    THEN TrimEnd(SubSeq(str, 1, Len(str) - 1)) ELSE str

\* schema option trim: true
Trim(str) == TrimEnd(TrimStart(str))

NoFile == <<>>
Hi == <<"h">>
Contents == {<<>>, <<SP>>, Hi}

\* chat:send_message payloads: content, messageType, fileUrl
SendPayloads ==
  {[content |-> c, messageType |-> "text", fileUrl |-> NoFile] : c \in Contents}
    \cup {[content |-> Hi, messageType |-> "image", fileUrl |-> f] :
            f \in {NoFile, <<"f">>}}

EmptyPayload == [content |-> <<>>, messageType |-> "text", fileUrl |-> NoFile]

TextPayload == [content |-> Hi, messageType |-> "text", fileUrl |-> NoFile]

\* schema validation followed by the pre("save") hook
ValidateMessage(content, messageType, fileUrl) ==
  IF Trim(content) = <<>> THEN ErrContentRequired
  ELSE IF messageType \notin MessageType THEN "messageType is not a valid enum value"
  ELSE IF messageType # "text" /\ Trim(fileUrl) = <<>> THEN ErrFileUrl
  ELSE "ok"

NewMessage_NoTrim(conv, sender, content, messageType, fileUrl) ==
  [conversation |-> conv, sender |-> sender, content |-> content,
   messageType |-> messageType, fileUrl |-> fileUrl,
   status |-> "sent", deliveredTo |-> {}, readBy |-> {},
   isEdited |-> FALSE, isDeleted |-> FALSE, deletedFor |-> {}]

\* the document chat:send_message hands to messageRepo.create
NewMessage(conv, sender, content, messageType, fileUrl) ==
  [conversation |-> conv, sender |-> sender, content |-> Trim(content),
   messageType |-> messageType, fileUrl |-> Trim(fileUrl),
   status |-> "sent", deliveredTo |-> {}, readBy |-> {},
   isEdited |-> FALSE, isDeleted |-> FALSE, deletedFor |-> {}]

(* ------------------------------------------------------------------ *)
(* Message repository                                                  *)
(* ------------------------------------------------------------------ *)
markAsDelivered(msgs, id, userId) ==
  IF id \in DOMAIN msgs
    THEN [msgs EXCEPT ![id].deliveredTo = @ \cup {userId},
                      ![id].status = "delivered"]
    ELSE msgs

markAsRead(msgs, id, userId) ==
  IF id \in DOMAIN msgs
    THEN [msgs EXCEPT ![id].readBy = @ \cup {userId}, ![id].status = "read"]
    ELSE msgs

\* documents matched by markConversationAsRead's filter
UnreadBy(msgs, conv, userId) ==
  {i \in DOMAIN msgs : /\ msgs[i].conversation = conv
                       /\ msgs[i].sender # userId
                       /\ userId \notin msgs[i].readBy}

markConversationAsRead_OwnToo(msgs, conv, userId) ==
  [i \in DOMAIN msgs |->
     IF msgs[i].conversation = conv /\ userId \notin msgs[i].readBy
       THEN [msgs[i] EXCEPT !.readBy = @ \cup {userId}, !.status = "read"]
       ELSE msgs[i]]

markConversationAsRead(msgs, conv, userId) ==
  [i \in DOMAIN msgs |->
     IF i \in UnreadBy(msgs, conv, userId)
       THEN [msgs[i] EXCEPT !.readBy = @ \cup {userId}, !.status = "read"]
       ELSE msgs[i]]

(* ------------------------------------------------------------------ *)
(* Conversation repository and fan-out                                 *)
(* ------------------------------------------------------------------ *)
isParticipant_Always(convs, c, userId) == TRUE

isParticipant(convs, c, userId) == userId \in convs[c].participants

isAdmin(convs, c, userId) == userId \in convs[c].admin

UserOrder == <<"u1", "u2", "u3">>

emitToUser_AllSockets(sk, userId, event, u, status, m, c) ==
  Ev(event, userId, NamespaceSockets(sk, "/"), u, status, m, c)

emitToUser(sk, userId, event, u, status, m, c) ==
  Ev(event, userId, UserRoom(sk, "/", userId), u, status, m, c)

\* participants.forEach(... if (id !== socket.userId) emitToUser(...))
FanOut_IncludeSender(sk, ps, self, event, u, status, m, c) ==
  LET o == SelectSeq(UserOrder, LAMBDA x : x \in ps)
  IN [i \in 1..Len(o) |-> emitToUser(sk, o[i], event, u, status, m, c)]

FanOut(sk, ps, self, event, u, status, m, c) ==
  LET o == SelectSeq(UserOrder, LAMBDA x : x \in ps /\ x # self)
  IN [i \in 1..Len(o) |-> emitToUser(sk, o[i], event, u, status, m, c)]

\* socket.emit: delivered only while the socket is connected
EmitToSocket(sk, s, event, u, status, m, c) ==
  Ev(event, "socket", IF sk[s].st = "open" THEN {s} ELSE {}, u, status, m, c)

Ack(cb, result) == IF cb THEN result ELSE None

(* ------------------------------------------------------------------ *)
(* chat:send_message, one action per stretch between awaits            *)
(* ------------------------------------------------------------------ *)
\* validation and the isParticipant query
SendStart(s, c, p, cb) ==
  /\ sock[s].st = "open" /\ sock[s].ns = "/"
  /\ Cardinality(inflight) < MaxInflight
  /\ Len(messages) + Cardinality(inflight) < MaxMsgs
  /\ LET userId == sock[s].userId IN
     IF p.content = <<>>
       THEN /\ last' = Op("chat:send_message", s, userId, c, 0, cb,
                          Ack(cb, ErrRequired), 0)
            /\ UNCHANGED inflight
       ELSE IF ~isParticipant(conversations, c, userId)
         THEN /\ last' = Op("chat:send_message", s, userId, c, 0, cb,
                            Ack(cb, ErrNotParticipant), 0)
              /\ UNCHANGED inflight
         ELSE /\ inflight' = inflight \cup
                   {[sock |-> s, userId |-> userId, conv |-> c, payload |-> p,
                     cb |-> cb, pc |-> "create", msg |-> 0]}
              /\ last' = Op("chat:send_message/check", s, userId, c, 0, cb, None, 0)
  /\ emitted' = <<>>
  /\ UNCHANGED <<storeVars, registryVars, conversations, messages, receiptOps>>

\* messageRepo.create
SendCreate(h) ==
  /\ h \in inflight /\ h.pc = "create"
  /\ LET p == h.payload
         err == ValidateMessage(p.content, p.messageType, p.fileUrl)
     IN IF err # "ok"
          THEN /\ inflight' = inflight \ {h}
               /\ last' = Op("chat:send_message", h.sock, h.userId, h.conv, 0,
                             h.cb, Ack(h.cb, err), 1)
               /\ UNCHANGED messages
          ELSE /\ messages' = Append(messages,
                    NewMessage(h.conv, h.userId, p.content, p.messageType, p.fileUrl))
               /\ inflight' = (inflight \ {h}) \cup
                    {[h EXCEPT !.pc = "fanout", !.msg = Len(messages) + 1]}
               /\ last' = Op("chat:send_message/create", h.sock, h.userId, h.conv,
                             Len(messages) + 1, h.cb, None, 1)
  /\ emitted' = <<>>
  /\ UNCHANGED <<storeVars, registryVars, conversations, receiptOps>>

\* populate, conversation lookup, fan-out and acknowledgement
SendFanout(h) ==
  /\ h \in inflight /\ h.pc = "fanout"
  /\ emitted' =
       FanOut(sock, conversations[h.conv].participants, h.userId,
              "chat:new_message", h.userId, None, h.msg, h.conv)
       \o <<EmitToSocket(sock, h.sock, "chat:message_sent", h.userId, None,
                         h.msg, h.conv)>>
  /\ inflight' = inflight \ {h}
  /\ last' = Op("chat:send_message", h.sock, h.userId, h.conv, h.msg, h.cb,
                Ack(h.cb, "ok"), 0)
  /\ UNCHANGED <<storeVars, registryVars, conversations, messages, receiptOps>>

(* ------------------------------------------------------------------ *)
(* Other chat handlers                                                 *)
(* ------------------------------------------------------------------ *)
Typing(s, c, isTyping) ==
  /\ sock[s].st = "open" /\ sock[s].ns = "/"
  /\ LET userId == sock[s].userId IN
       /\ emitted' =
            IF isParticipant(conversations, c, userId)
              THEN FanOut(sock, conversations[c].participants, userId,
                          "chat:user_typing", userId,
                          IF isTyping THEN "typing" ELSE "idle", 0, c)
              ELSE <<>>
       /\ last' = Op("chat:typing", s, userId, c, 0, FALSE, None, 0)
  /\ UNCHANGED <<storeVars, registryVars, conversations, messages, inflight,
                 receiptOps>>

JoinRoom(s, c, cb) ==
  /\ sock[s].st = "open" /\ sock[s].ns = "/"
  /\ LET userId == sock[s].userId IN
     IF ~isParticipant(conversations, c, userId)
       THEN /\ last' = Op("chat:join_room", s, userId, c, 0, cb,
                          Ack(cb, ErrNotParticipant), 0)
            /\ UNCHANGED sock
       ELSE /\ sock' = [sock EXCEPT ![s].rooms = @ \cup {c}]
            /\ last' = Op("chat:join_room", s, userId, c, 0, cb, Ack(cb, "ok"), 0)
  /\ emitted' = <<>>
  /\ UNCHANGED <<storeVars, conversations, messages, inflight, receiptOps,
                 connectedUsers, userSockets, userStatuses>>

MessageDelivered(s, id, cb) ==
  /\ sock[s].st = "open" /\ sock[s].ns = "/"
  /\ receiptOps < MaxReceipts
  /\ receiptOps' = receiptOps + 1
  /\ LET userId == sock[s].userId IN
       /\ messages' = markAsDelivered(messages, id, userId)
       /\ emitted' =
            IF id \in DOMAIN messages
              THEN <<emitToUser(sock, messages[id].sender, "chat:message_delivered",
                                userId, None, id, None)>>
              ELSE <<>>
       /\ last' = Op("chat:message_delivered", s, userId, None, id, cb,
                     Ack(cb, "ok"), 1)
  /\ UNCHANGED <<storeVars, registryVars, conversations, inflight>>

MessageRead(s, id, cb) ==
  /\ sock[s].st = "open" /\ sock[s].ns = "/"
  /\ receiptOps < MaxReceipts
  /\ receiptOps' = receiptOps + 1
  /\ LET userId == sock[s].userId IN
       /\ messages' = markAsRead(messages, id, userId)
       /\ emitted' =
            IF id \in DOMAIN messages
              THEN <<emitToUser(sock, messages[id].sender,
                                "chat:message_read_receipt",
                                userId, None, id, None)>>
              ELSE <<>>
       /\ last' = Op("chat:message_read", s, userId, None, id, cb,
                     Ack(cb, "ok"), 1)
  /\ UNCHANGED <<storeVars, registryVars, conversations, inflight>>

MarkConversationRead(s, c, cb) ==
  /\ sock[s].st = "open" /\ sock[s].ns = "/"
  /\ receiptOps < MaxReceipts
  /\ receiptOps' = receiptOps + 1
  /\ LET userId == sock[s].userId IN
       /\ messages' = markConversationAsRead(messages, c, userId)
       /\ emitted' = FanOut(sock, conversations[c].participants, userId,
                            "chat:messages_read", userId, None, 0, c)
       /\ last' = [Op("chat:mark_conversation_read", s, userId, c, 0, cb,
                      Ack(cb, "ok"), 1)
                   EXCEPT !.count = Cardinality(UnreadBy(messages, c, userId))]
  /\ UNCHANGED <<storeVars, registryVars, conversations, inflight>>

(* ------------------------------------------------------------------ *)
(* Conversation membership (REST)                                      *)
(* ------------------------------------------------------------------ *)
RemoveParticipant(by, c, target) ==
  /\ userStore[by].exists
  /\ isAdmin(conversations, c, by) \/ by = target
  /\ target \in conversations[c].participants
  /\ conversations' = [conversations EXCEPT ![c].participants = @ \ {target},
                                            ![c].admin = @ \ {target}]
  /\ emitted' = FanOut(sock, conversations'[c].participants, None,
                       "chat:participant_removed", target, None, 0, c)
  /\ last' = Op("removeParticipant", 0, by, c, 0, FALSE, "ok", 0)
  /\ UNCHANGED <<storeVars, registryVars, messages, inflight, receiptOps>>

(* ------------------------------------------------------------------ *)
(* Specifications                                                      *)
(* ------------------------------------------------------------------ *)
Next ==
  \/ \E s \in Sockets, token \in Tokens : Connect(s, token)
  \/ \E s \in Sockets : Disconnect(s)
  \/ \E s \in Sockets, status \in StatusPayloads : StatusChange(s, status)

Spec == Init /\ [][Next]_vars

NextAuth ==
  \/ \E s \in Sockets, token \in Tokens : Connect(s, token)
  \/ \E s \in Sockets : Disconnect(s)
  \/ \E s \in Sockets, token \in Tokens : AdminConnect(s, token)
  \/ \E s \in Sockets : AdminDisconnect(s)
  \/ \E u \in Users : FreezeAccount(u)
  \/ \E u \in Users : RestoreAccount(u)
  \/ \E a, u \in Users, permanent \in BOOLEAN : DeleteUser(a, u, permanent)
  \/ \E a, u \in Users, role \in RoleType : UpdateUserRole(a, u, role)

SpecAuth == Init /\ [][NextAuth]_vars

NextChat ==
  \/ \E s \in Sockets, u \in Users : Connect(s, [kind |-> "valid", id |-> u])
  \/ \E h \in inflight : Disconnect(h.sock)
  \/ \E s \in Sockets, c \in Convs, p \in SendPayloads : SendStart(s, c, p, TRUE)
  \/ \E h \in inflight : SendCreate(h)
  \/ \E h \in inflight : SendFanout(h)
  \/ \E by, target \in Users, c \in Convs : RemoveParticipant(by, c, target)

SpecChat == Init /\ [][NextChat]_vars

NextRooms ==
  \/ \E s \in Sockets, u \in Users : Connect(s, [kind |-> "valid", id |-> u])
  \/ \E s \in Sockets, c \in Convs, p \in {EmptyPayload, TextPayload},
        cb \in BOOLEAN : SendStart(s, c, p, cb)
  \/ \E h \in inflight : SendCreate(h)
  \/ \E h \in inflight : SendFanout(h)
  \/ \E s \in Sockets, c \in Convs, isTyping \in BOOLEAN : Typing(s, c, isTyping)
  \/ \E s \in Sockets, c \in Convs, cb \in BOOLEAN : JoinRoom(s, c, cb)
  \/ \E by, target \in Users, c \in Convs : RemoveParticipant(by, c, target)

SpecRooms == Init /\ [][NextRooms]_vars

NextReceipts ==
  \/ \E s \in Sockets, u \in Users : Connect(s, [kind |-> "valid", id |-> u])
  \/ \E s \in Sockets, c \in Convs : SendStart(s, c, TextPayload, TRUE)
  \/ \E h \in inflight : SendCreate(h)
  \/ \E h \in inflight : SendFanout(h)
  \/ \E s \in Sockets, id \in 1..MaxMsgs, cb \in BOOLEAN : MessageDelivered(s, id, cb)
  \/ \E s \in Sockets, id \in 1..MaxMsgs, cb \in BOOLEAN : MessageRead(s, id, cb)
  \/ \E s \in Sockets, c \in Convs, cb \in BOOLEAN : MarkConversationRead(s, c, cb)

SpecReceipts == Init /\ [][NextReceipts]_vars

NextBulkRead ==
  \/ \E s \in Sockets, u \in Users : Connect(s, [kind |-> "valid", id |-> u])
  \/ \E s \in Sockets, c \in AllConvs : SendStart(s, c, TextPayload, TRUE)
  \/ \E h \in inflight : SendCreate(h)
  \/ \E h \in inflight : SendFanout(h)
  \/ \E s \in Sockets, c \in AllConvs : MarkConversationRead(s, c, TRUE)

SpecBulkRead == Init /\ [][NextBulkRead]_vars

(* ------------------------------------------------------------------ *)
(* Session registry and presence properties                            *)
(* ------------------------------------------------------------------ *)
\* sockets of principal P that connected on the default channel and have
\* not disconnected
LiveSockets(P) ==
  {s \in Sockets : sock[s].st = "open" /\ sock[s].ns = "/" /\ sock[s].userId = P}

StatusEvents(evs) ==
  {i \in DOMAIN evs : evs[i].event = "presence:user_status_changed"}

\* C1: after any sequence of connects and disconnects, for every principal P
\* isUserOnline(P) holds iff P has a live socket, getUserTabCount(P) is the
\* number of P's live sockets, and connectedUsers and userSockets have the
\* same keys with the same, never empty, tab sets.
C1_RegistryMatchesLiveSockets ==
  /\ \A P \in Users :
       /\ isUserOnline(connectedUsers, P) <=> LiveSockets(P) # {}
       /\ getUserTabCount(connectedUsers, P) = Cardinality(LiveSockets(P))
  /\ DOMAIN connectedUsers = DOMAIN userSockets
  /\ \A P \in DOMAIN connectedUsers :
       /\ connectedUsers[P].tabs = userSockets[P]
       /\ userSockets[P] # {}

\* a principal with two tabs has closed one of them
C1_Witness ==
  /\ last.op = "disconnect"
  /\ isUserOnline(connectedUsers, last.user)
  /\ getUserTabCount(connectedUsers, last.user) = 1
  /\ \E P \in Users : P # last.user /\ ~isUserOnline(connectedUsers, P)

\* C2: a disconnect of P's last registered tab stores status offline for P
\* and broadcasts exactly one presence:user_status_changed event, carrying
\* offline; a disconnect that leaves P another tab changes no stored status
\* and emits no status-changed event.
C2_OfflineOnLastTabOnly ==
  [][last'.op = "disconnect" =>
       LET P == last'.user
           wasLastTab == connectedUsers[P].tabs = {last'.sock}
       IN IF wasLastTab
            THEN /\ userStatuses'[P] = "offline"
                 /\ Cardinality(StatusEvents(emitted')) = 1
                 /\ \A i \in StatusEvents(emitted') :
                      emitted'[i].userId = P /\ emitted'[i].status = "offline"
            ELSE /\ userStatuses' = userStatuses
                 /\ StatusEvents(emitted') = {}]_vars

\* the last tab of a principal whose stored status was away has closed while
\* another principal is connected and receives the broadcast
C2_Witness ==
  /\ last.op = "disconnect"
  /\ ~isUserOnline(connectedUsers, last.user)
  /\ userStatuses[last.user] = "offline"
  /\ Len(emitted) = 1
  /\ emitted[1].to # {}
  /\ \E P \in DOMAIN userStatuses : userStatuses[P] = "away"

(* ------------------------------------------------------------------ *)
(* Connection authenticator properties                                 *)
(* ------------------------------------------------------------------ *)
\* C3: a connection is registered only if the token is present, verifies and
\* resolves to an existing user that is neither frozen nor deleted; a
\* rejected connection carries one of the five reasons and is not registered.
C3_RegisteredOnlyInGoodStanding ==
  /\ (last.op = "connect" /\ last.reply = "ok") =>
        /\ userStore[last.user].exists
        /\ userStore[last.user].accountStatus # "frozen"
        /\ ~userStore[last.user].isDeleted
  /\ (last.op = "connect" /\ last.reply # "ok") =>
        /\ last.reply \in {ErrNoToken, ErrBadToken, ErrNoUser, ErrFrozen, ErrDeleted}
        /\ last.sock = 0

\* C4: every connection on the admin namespace passed the authenticator and
\* its attached principal has role admin; a principal with another role is
\* rejected with the authorization error and gets no admin connection.
C4_AdminNamespaceOnlyAdmins ==
  /\ \A s \in Sockets :
       (sock[s].st = "open" /\ sock[s].ns = "/admin") =>
          sock[s].userId \in Users /\ sock[s].role = "admin"
  /\ (last.op = "admin:connect" /\ last.user \in Users
        /\ userStore[last.user].exists /\ userStore[last.user].role # "admin") =>
          last.reply = ErrRole /\ last.sock = 0

\* an admin is connected to the admin namespace and an ordinary user has
\* just been turned away
C4_Witness ==
  /\ last.op = "admin:connect"
  /\ last.reply = ErrRole
  /\ \E s \in Sockets : sock[s].st = "open" /\ sock[s].ns = "/admin"

(* ------------------------------------------------------------------ *)
(* Messaging channel properties                                        *)
(* ------------------------------------------------------------------ *)
NonParticipant(s, c) ==
  /\ sock[s].st = "open" /\ sock[s].ns = "/"
  /\ sock[s].userId \notin conversations[c].participants

EventsNamed(evs, name) == {i \in DOMAIN evs : evs[i].event = name}

\* the step wrote nothing to the message store and emitted nothing
NoMessagingEffect ==
  /\ messages' = messages
  /\ inflight' = inflight
  /\ last'.writes = 0
  /\ emitted' = <<>>

FannedOutTo(evs, name, targets, m) ==
  /\ Cardinality(EventsNamed(evs, name)) = Cardinality(targets)
  /\ \A P \in targets :
       \E i \in EventsNamed(evs, name) :
          evs[i].room = P /\ evs[i].to = LiveSockets(P) /\ evs[i].msg = m

CreatedAsSent(h) ==
  /\ Len(messages') = Len(messages) + 1
  /\ SubSeq(messages', 1, Len(messages)) = messages
  /\ LET m == messages'[Len(messages')] IN
       /\ m.status = "sent" /\ m.deliveredTo = {} /\ m.readBy = {}
       /\ m.sender = h.userId /\ m.conversation = h.conv

FanOutAndAck(h, ackTo) ==
  /\ FannedOutTo(emitted', "chat:new_message",
                 conversations[h.conv].participants \ {h.userId}, h.msg)
  /\ \A i \in EventsNamed(emitted', "chat:new_message") :
       emitted'[i].to \cap LiveSockets(h.userId) = {}
  /\ Cardinality(EventsNamed(emitted', "chat:message_sent")) = 1
  /\ \A i \in EventsNamed(emitted', "chat:message_sent") :
       emitted'[i].msg = h.msg /\ emitted'[i].to = ackTo

ReceiptEvents(evs) ==
  EventsNamed(evs, "chat:message_delivered")
    \cup EventsNamed(evs, "chat:message_read_receipt")

\* C7: a chat:message_read by a principal already in the message's readBy
\* leaves readBy as it is, reports success, and emits no further
\* chat:message_read_receipt.
C7_SecondReadSilent ==
  [][(/\ last'.op = "chat:message_read"
      /\ last'.msg \in DOMAIN messages
      /\ last'.user \in messages[last'.msg].readBy)
     => /\ messages'[last'.msg].readBy = messages[last'.msg].readBy
        /\ (last'.cb => last'.reply = "ok")
        /\ EventsNamed(emitted', "chat:message_read_receipt") = {}]_vars

\* C8: a delivery or read receipt for an existing message emits exactly one
\* receipt event, addressed to the message's sender, and none at all when the
\* caller is that sender.
C8_OneReceiptNeverToSelf ==
  [][(/\ last'.op \in {"chat:message_delivered", "chat:message_read"}
      /\ last'.msg \in DOMAIN messages)
     => LET sender == messages[last'.msg].sender IN
          IF last'.user = sender
            THEN ReceiptEvents(emitted') = {}
            ELSE /\ Cardinality(ReceiptEvents(emitted')) = 1
                 /\ \A i \in ReceiptEvents(emitted') : emitted'[i].room = sender]_vars

\* C9: in every reachable state every principal in a message's readBy is
\* also in its deliveredTo.
C9_ReadImpliesDelivered ==
  \A i \in DOMAIN messages : messages[i].readBy \subseteq messages[i].deliveredTo

StatusForward(a, b) ==
  \/ a = b
  \/ <<a, b>> \in {<<"sent", "delivered">>, <<"sent", "read">>,
                   <<"delivered", "read">>, <<"sent", "failed">>}

\* C10: a message's status only moves forward along sent, delivered, read:
\* once read it never becomes delivered or sent again, and failed is set only
\* from sent.
C10_StatusMonotonic ==
  [][\A i \in DOMAIN messages :
       StatusForward(messages[i].status, messages'[i].status)]_vars

(* ------------------------------------------------------------------ *)
(* Receipt algebra                                                     *)
(* ------------------------------------------------------------------ *)
PersistedReceiptState(msgs, id) ==
  <<msgs[id].status, msgs[id].deliveredTo, msgs[id].readBy>>

\* C11: for every stored message and every recipient, a read receipt
\* followed by a delivery receipt leaves the same persisted status,
\* deliveredTo and readBy as the delivery receipt followed by the read
\* receipt.
C11_ReceiptsCommute ==
  \A id \in DOMAIN messages, U \in Users :
     PersistedReceiptState(
        markAsDelivered(markAsRead(messages, id, U), id, U), id)
     = PersistedReceiptState(
        markAsRead(markAsDelivered(messages, id, U), id, U), id)

\* messages of conversation C that U did not send and has not read
UnreadByOthers(msgs, C, U) ==
  {i \in DOMAIN msgs :
     msgs[i].conversation = C /\ msgs[i].sender # U /\ U \notin msgs[i].readBy}

\* C12: chat:mark_conversation_read by U on C adds U to readBy of exactly
\* the messages of C that U did not send and had not read, creates and
\* removes no message, returns their number (so a call repeated at once
\* returns 0), and emits exactly one chat:messages_read per other
\* participant of C however many messages changed.
C12_BulkReadExactAndCounted ==
  [][last'.op = "chat:mark_conversation_read" =>
       LET U == last'.user
           C == last'.conv
           T == UnreadByOthers(messages, C, U)
       IN /\ DOMAIN messages' = DOMAIN messages
          /\ \A i \in DOMAIN messages :
               messages'[i].readBy =
                 IF i \in T THEN messages[i].readBy \cup {U}
                            ELSE messages[i].readBy
          /\ last'.reply = "ok"
          /\ last'.count = Cardinality(T)
          /\ UnreadByOthers(messages', C, U) = {}
          /\ (last.op = "chat:mark_conversation_read"
                /\ last.user = U /\ last.conv = C) => last'.count = 0
          /\ Len(emitted') = Cardinality(conversations[C].participants \ {U})
          /\ FannedOutTo(emitted', "chat:messages_read",
                         conversations[C].participants \ {U}, 0)]_vars

\* a bulk read changed one message and reached a live connection while a
\* message of another conversation stayed unread by the caller
C12_Witness ==
  /\ last.op = "chat:mark_conversation_read"
  /\ last.count = 1
  /\ \E i \in DOMAIN messages :
       messages[i].conversation # last.conv /\ last.user \notin messages[i].readBy
  /\ \E i \in EventsNamed(emitted, "chat:messages_read") : emitted[i].to # {}

(* ------------------------------------------------------------------ *)
(* Notifications                                                       *)
(* ------------------------------------------------------------------ *)
\* sendNotification(io, userId, notification): one emitToUser, nothing kept
SendNotification(P) ==
  /\ emitted' = <<emitToUser(sock, P, "notification:new", P, None, 0, None)>>
  /\ last' = Op("sendNotification", 0, P, None, 0, FALSE, None, 0)
  /\ UNCHANGED <<storeVars, registryVars, chatVars>>

NextNotify ==
  \/ \E s \in Sockets, u \in Users : Connect(s, [kind |-> "valid", id |-> u])
  \/ \E s \in Sockets : Disconnect(s)
  \/ \E P \in Users : SendNotification(P)

SpecNotify == Init /\ [][NextNotify]_vars

RegistryTabs(P) ==
  IF P \in DOMAIN connectedUsers THEN connectedUsers[P].tabs ELSE {}

\* C13: sendNotification for P delivers notification:new to exactly the
\* connections in P's registry tab set at the call and to nobody when that
\* set is empty, stores nothing, and a connection opened afterwards is
\* handed no event when it connects.
C13_NotifyLiveTabsOnly ==
  [][/\ last'.op = "sendNotification" =>
          /\ Len(emitted') = 1
          /\ emitted'[1].event = "notification:new"
          /\ emitted'[1].to = RegistryTabs(last'.user)
          /\ UNCHANGED <<storeVars, registryVars, chatVars>>
     /\ \A s \in Sockets :
          (sock[s].st # "open" /\ sock'[s].st = "open") =>
             \A i \in DOMAIN emitted' : s \notin emitted'[i].to]_vars

\* a notification reached both tabs of its target while another principal
\* was connected
C13_Witness ==
  /\ last.op = "sendNotification"
  /\ Cardinality(emitted[1].to) = 2
  /\ \E s \in Sockets : sock[s].st = "open" /\ sock[s].userId # last.user

(* ------------------------------------------------------------------ *)
(* Admin channel operations                                            *)
(* ------------------------------------------------------------------ *)
DefaultKickReason == "You have been kicked by an administrator"
ErrNotOnline == "User is not online"
KickReasons == {None, "spam"}
SeverityTypes == {None, "warning"}
Announcement == "maintenance at noon"

\* rooms a connected socket has joined: user:<id> and conversation:<id> on
\* the default namespace (server.ts:68, chat:join_room), none on /admin
JoinedRooms(sk, s) ==
  IF sk[s].ns = "/"
    THEN {<<"user", sk[s].userId>>} \cup {<<"conversation", c>> : c \in sk[s].rooms}
    ELSE {}

\* namespace.to(room): the sockets of that namespace that joined the room
RoomMembers(sk, ns, room) ==
  {s \in NamespaceSockets(sk, ns) : room \in JoinedRooms(sk, s)}

\* admin:kick_user: const userConnections = connectedUsers.get(userId);
\* if (userConnections)
userConnections_Always(cu, userId) == TRUE

userConnections(cu, userId) == MapHas(cu, userId)

AdminKickUser(s, userId, reason, cb) ==
  /\ sock[s].st = "open" /\ sock[s].ns = "/admin"
  /\ IF userConnections(connectedUsers, userId)
       THEN /\ emitted' =
                 <<Ev("admin:kicked", userId,
                      RoomMembers(sock, "/admin", <<"user", userId>>), None,
                      IF reason = None THEN DefaultKickReason ELSE reason,
                      0, None)>>
            /\ last' = Op("admin:kick_user", s, sock[s].userId, None, 0, cb,
                          Ack(cb, "ok"), 0) @@ [target |-> userId]
       ELSE /\ emitted' = <<>>
            /\ last' = Op("admin:kick_user", s, sock[s].userId, None, 0, cb,
                          Ack(cb, ErrNotOnline), 0) @@ [target |-> userId]
  /\ UNCHANGED <<storeVars, registryVars, chatVars>>

AdminBroadcastMessage(s, type) ==
  /\ sock[s].st = "open" /\ sock[s].ns = "/admin"
  /\ emitted' =
       <<Ev("admin:system_message", "/",
            RoomMembers(sock, "/admin", <<"/">>), sock[s].userId,
            IF type = None THEN "info" ELSE type, 0, None)
           @@ [message |-> Announcement],
         EmitToSocket(sock, s, "admin:broadcast_sent", None, None, 0, None)>>
  /\ last' = Op("admin:broadcast_message", s, sock[s].userId, None, 0, FALSE,
                None, 0)
  /\ UNCHANGED <<storeVars, registryVars, chatVars>>

NextAdmin ==
  \/ \E s \in Sockets, u \in Users : Connect(s, [kind |-> "valid", id |-> u])
  \/ \E s \in Sockets : Disconnect(s)
  \/ \E s \in Sockets, u \in Users :
        AdminConnect(s, [kind |-> "valid", id |-> u])
  \/ \E s \in Sockets : AdminDisconnect(s)
  \/ \E s \in Sockets, u \in Users, reason \in KickReasons, cb \in BOOLEAN :
        AdminKickUser(s, u, reason, cb)
  \/ \E s \in Sockets, type \in SeverityTypes : AdminBroadcastMessage(s, type)

SpecAdmin == Init /\ [][NextAdmin]_vars

\* C14: admin:kick_user for a principal with at least one live connection
\* delivers admin:kicked, carrying the given reason or the default one, to
\* every live connection of that principal, and reports success.
C14_KickReachesEveryTab ==
  [][(last'.op = "admin:kick_user" /\ LiveSockets(last'.target) # {}) =>
       /\ last'.cb => last'.reply = "ok"
       /\ \E i \in EventsNamed(emitted', "admin:kicked") :
            /\ emitted'[i].to = LiveSockets(last'.target)
            /\ emitted'[i].status # None]_vars

\* C15: admin:kick_user for a principal with no live connection answers
\* "User is not online" (through the acknowledgement callback), emits no
\* event, and leaves the registry and the presence statuses unchanged.
C15_KickOfflineReportsNotOnline ==
  [][(last'.op = "admin:kick_user" /\ LiveSockets(last'.target) = {}) =>
       /\ last'.reply = (IF last'.cb THEN ErrNotOnline ELSE None)
       /\ emitted' = <<>>
       /\ UNCHANGED registryVars]_vars

\* a kick of an offline principal was refused while another principal had a
\* live connection
C15_Witness ==
  /\ last.op = "admin:kick_user"
  /\ last.reply = ErrNotOnline
  /\ LiveSockets(last.target) = {}
  /\ \E P \in Users : LiveSockets(P) # {}

\* C16: admin:broadcast_message delivers admin:system_message, with the
\* given message and severity (info by default), to every connection open on
\* the default channel and to none on the admin channel; the caller gets
\* admin:broadcast_sent.
C16_BroadcastReachesDefaultChannel ==
  [][last'.op = "admin:broadcast_message" =>
       /\ \E i \in EventsNamed(emitted', "admin:system_message") :
            /\ emitted'[i].to = NamespaceSockets(sock, "/")
            /\ emitted'[i].message = Announcement
            /\ emitted'[i].status \in {"info", "warning"}
       /\ \E i \in EventsNamed(emitted', "admin:broadcast_sent") :
            emitted'[i].to = {last'.sock}]_vars

(* ------------------------------------------------------------------ *)
(* Message history, edit and delete                                    *)
(* ------------------------------------------------------------------ *)
MaxPage == 2
MaxLimit == 2

\* content is a sequence of characters; the tombstone is kept as one token
Tombstone == <<"This message was deleted">>
Edited == <<"e">>
Padded == <<SP, "h">>
PaddedPayload == [content |-> Padded, messageType |-> "text", fileUrl |-> NoFile]
FilePayload == [content |-> Hi, messageType |-> "image", fileUrl |-> <<"f", SP>>]

\* createdAt of a stored message: messages are kept in creation order and
\* their timestamps are distinct, so the position stands for the timestamp
createdAt(id) == id

Pages == 1..MaxPage
Limits == 1..MaxLimit
\* data.beforeDate: absent (NoDate), or the createdAt of the newest message
NoDate == 0
BeforeDates == {NoDate, MaxMsgs}

\* .sort({createdAt: -1})
RECURSIVE SortNewestFirst(_)
SortNewestFirst(ids) ==
  IF ids = {} THEN <<>>
  ELSE LET newest == CHOOSE i \in ids : \A j \in ids : createdAt(j) <= createdAt(i)
       IN <<newest>> \o SortNewestFirst(ids \ {newest})

\* results.slice / skip / limit on a sequence
Slice(seq, from, to) ==
  IF from > Len(seq) THEN <<>>
  ELSE SubSeq(seq, from, IF to < Len(seq) THEN to ELSE Len(seq))

Reverse(seq) == [k \in 1..Len(seq) |-> seq[Len(seq) + 1 - k]]

\* what the caller is handed for one document
Fetched(msgs, id) ==
  [id |-> id, content |-> msgs[id].content,
   messageType |-> msgs[id].messageType, fileUrl |-> msgs[id].fileUrl]

getConversationMessages_NoReverse(msgs, conversationId, userId, page, limit, beforeDate) ==
  LET query == {i \in DOMAIN msgs :
                  /\ msgs[i].conversation = conversationId
                  /\ ~msgs[i].isDeleted
                  /\ userId \notin msgs[i].deletedFor
                  /\ (beforeDate # NoDate => createdAt(i) < beforeDate)}
      skip == (page - 1) * limit
      results == Slice(SortNewestFirst(query), skip + 1, skip + limit + 1)
      hasMore == Len(results) > limit
      data == IF hasMore THEN Slice(results, 1, limit) ELSE results
  IN [data |-> [k \in 1..Len(data) |-> Fetched(msgs, data[k])],
      total |-> Cardinality(query), page |-> page, limit |-> limit,
      hasMore |-> hasMore]

getConversationMessages(msgs, conversationId, userId, page, limit, beforeDate) ==
  LET query == {i \in DOMAIN msgs :
                  /\ msgs[i].conversation = conversationId
                  /\ ~msgs[i].isDeleted
                  /\ userId \notin msgs[i].deletedFor
                  /\ (beforeDate # NoDate => createdAt(i) < beforeDate)}
      skip == (page - 1) * limit
      results == Slice(SortNewestFirst(query), skip + 1, skip + limit + 1)
      hasMore == Len(results) > limit
      data == Reverse(IF hasMore THEN Slice(results, 1, limit) ELSE results)
  IN [data |-> [k \in 1..Len(data) |-> Fetched(msgs, data[k])],
      total |-> Cardinality(query), page |-> page, limit |-> limit,
      hasMore |-> hasMore]

\* chat:get_messages
GetMessages(s, c, page, limit, beforeDate, cb) ==
  /\ sock[s].st = "open" /\ sock[s].ns = "/"
  /\ LET userId == sock[s].userId IN
       IF ~isParticipant(conversations, c, userId)
         THEN last' = Op("chat:get_messages", s, userId, c, 0, cb,
                         Ack(cb, ErrNotParticipant), 0)
         ELSE last' = Op("chat:get_messages", s, userId, c, 0, cb,
                         Ack(cb, "ok"), 0)
                      @@ [args |-> [page |-> page, limit |-> limit,
                                    beforeDate |-> beforeDate],
                          result |-> IF cb
                                      THEN getConversationMessages(
                                             messages, c, userId, page, limit,
                                             beforeDate)
                                      ELSE None]
  /\ emitted' = <<>>
  /\ UNCHANGED <<storeVars, registryVars, chatVars>>

ErrMessageNotFound == "Message not found"
ErrEditOwn == "You can only edit your own messages"
ErrEditText == "Only text messages can be edited"
ErrDeleteOwn == "You can only delete your own messages"

\* MessageRepository.update: { ...updateData, isEdited: true, editedAt }
update(msgs, id, content) ==
  [msgs EXCEPT ![id].content = Trim(content), ![id].isEdited = TRUE]

deleteForUser_Everyone(msgs, id, userId) ==
  [msgs EXCEPT ![id].deletedFor = @ \cup {userId}, ![id].isDeleted = TRUE]

deleteForUser(msgs, id, userId) ==
  [msgs EXCEPT ![id].deletedFor = @ \cup {userId}]

deleteForEveryone(msgs, id) ==
  [msgs EXCEPT ![id].isDeleted = TRUE, ![id].content = Tombstone]

\* every participant, the caller included
NotifyAll(sk, ps, event, u, m, c) ==
  LET o == SelectSeq(UserOrder, LAMBDA x : x \in ps)
  IN [i \in 1..Len(o) |-> emitToUser(sk, o[i], event, u, None, m, c)]

\* ChatService.updateMessage (REST), called by an authenticated user
UpdateMessage(userId, id, content) ==
  /\ userStore[userId].exists
  /\ IF id \notin DOMAIN messages
       THEN /\ last' = Op("updateMessage", 0, userId, None, id, FALSE,
                          ErrMessageNotFound, 0)
            /\ UNCHANGED messages /\ emitted' = <<>>
     ELSE IF messages[id].sender # userId
       THEN /\ last' = Op("updateMessage", 0, userId, None, id, FALSE,
                          ErrEditOwn, 0)
            /\ UNCHANGED messages /\ emitted' = <<>>
     ELSE IF messages[id].messageType # "text"
       THEN /\ last' = Op("updateMessage", 0, userId, None, id, FALSE,
                          ErrEditText, 0)
            /\ UNCHANGED messages /\ emitted' = <<>>
     ELSE /\ messages' = update(messages, id, content)
          /\ emitted' = NotifyAll(sock,
                          conversations[messages[id].conversation].participants,
                          "chat:message_updated", userId, id,
                          messages[id].conversation)
          /\ last' = Op("updateMessage", 0, userId, messages[id].conversation,
                        id, FALSE, "ok", 1)
  /\ UNCHANGED <<storeVars, registryVars, conversations, inflight, receiptOps>>

\* ChatService.deleteMessage (REST), called by an authenticated user
DeleteMessage(userId, id, forEveryone) ==
  /\ userStore[userId].exists
  /\ IF id \notin DOMAIN messages
       THEN /\ last' = Op("deleteMessage", 0, userId, None, id, FALSE,
                          ErrMessageNotFound, 0)
                       @@ [forEveryone |-> forEveryone]
            /\ UNCHANGED messages /\ emitted' = <<>>
     ELSE IF messages[id].sender # userId
       THEN /\ last' = Op("deleteMessage", 0, userId, None, id, FALSE,
                          ErrDeleteOwn, 0)
                       @@ [forEveryone |-> forEveryone]
            /\ UNCHANGED messages /\ emitted' = <<>>
     ELSE IF forEveryone
       THEN /\ messages' = deleteForEveryone(messages, id)
            /\ emitted' = NotifyAll(sock,
                            conversations[messages[id].conversation].participants,
                            "chat:message_deleted", userId, id,
                            messages[id].conversation)
            /\ last' = Op("deleteMessage", 0, userId, messages[id].conversation,
                          id, FALSE, "ok", 1)
                       @@ [forEveryone |-> forEveryone]
     ELSE /\ messages' = deleteForUser(messages, id, userId)
          /\ emitted' = <<>>
          /\ last' = Op("deleteMessage", 0, userId, messages[id].conversation,
                        id, FALSE, "ok", 1)
                     @@ [forEveryone |-> forEveryone]
  /\ UNCHANGED <<storeVars, registryVars, conversations, inflight, receiptOps>>

\* no chat:send_message handler is suspended at an await
Quiet == inflight = {}

\* history is read and deleted between sends, by principals holding one
\* connection each
NextFetch ==
  \/ \E s \in Sockets, u \in Users :
        /\ Quiet /\ ~isUserOnline(connectedUsers, u)
        /\ Connect(s, [kind |-> "valid", id |-> u])
  \/ \E s \in Sockets, c \in AllConvs : SendStart(s, c, TextPayload, TRUE)
  \/ \E h \in inflight : SendCreate(h)
  \/ \E h \in inflight : SendFanout(h)
  \/ \E s \in Sockets, c \in AllConvs, page \in Pages, limit \in Limits,
        beforeDate \in BeforeDates :
        Quiet /\ GetMessages(s, c, page, limit, beforeDate, TRUE)
  \/ \E u \in Users, id \in 1..MaxMsgs, forEveryone \in BOOLEAN :
        Quiet /\ DeleteMessage(u, id, forEveryone)

SpecFetch == Init /\ [][NextFetch]_vars

NextRoundTrip ==
  \/ \E s \in Sockets, u \in Users : Connect(s, [kind |-> "valid", id |-> u])
  \/ \E s \in Sockets, c \in Convs,
        p \in {TextPayload, PaddedPayload, FilePayload} : SendStart(s, c, p, TRUE)
  \/ \E h \in inflight : SendCreate(h)
  \/ \E h \in inflight : SendFanout(h)
  \/ \E s \in Sockets, c \in Convs, limit \in Limits :
        GetMessages(s, c, 1, limit, NoDate, TRUE)

SpecRoundTrip == Init /\ [][NextRoundTrip]_vars

\* messages are edited, read and deleted between sends, by participants
\* holding one connection each
NextEdit ==
  \/ \E s \in Sockets, c \in Convs :
        \E u \in conversations[c].participants :
           /\ Quiet /\ ~isUserOnline(connectedUsers, u)
           /\ Connect(s, [kind |-> "valid", id |-> u])
  \/ \E s \in Sockets, c \in Convs : SendStart(s, c, TextPayload, TRUE)
  \/ \E h \in inflight : SendCreate(h)
  \/ \E h \in inflight : SendFanout(h)
  \/ \E s \in Sockets, id \in 1..MaxMsgs : Quiet /\ MessageRead(s, id, TRUE)
  \/ \E u \in Users, id \in 1..MaxMsgs : Quiet /\ UpdateMessage(u, id, Edited)
  \/ \E u \in Users, id \in 1..MaxMsgs, forEveryone \in BOOLEAN :
        Quiet /\ DeleteMessage(u, id, forEveryone)

SpecEdit == Init /\ [][NextEdit]_vars

(* ------------------------------------------------------------------ *)
(* History properties                                                  *)
(* ------------------------------------------------------------------ *)
\* rank of message i among the set E, newest first
NewestFirstRank(E, i) ==
  Cardinality({j \in E : createdAt(j) > createdAt(i)}) + 1

\* the page just returned is the p-th page of limit L of the set E
ReturnedPageOf(E) ==
  LET p == last'.args.page
      L == last'.args.limit
      data == last'.result.data
      ids == {data[k].id : k \in DOMAIN data}
  IN /\ ids = {i \in E : /\ (p - 1) * L + 1 <= NewestFirstRank(E, i)
                         /\ NewestFirstRank(E, i) <= p * L}
     /\ Len(data) = Cardinality(ids)
     /\ \A k \in 1..(Len(data) - 1) :
          createdAt(data[k].id) < createdAt(data[k + 1].id)
     /\ Len(data) <= L
     /\ last'.result.hasMore <=> (Cardinality(E) > p * L)

FetchByParticipant ==
  last'.op = "chat:get_messages" /\ last'.reply = "ok"

BeforeCursor(i) ==
  last'.args.beforeDate # NoDate => createdAt(i) < last'.args.beforeDate

\* C17 as stated: chat:get_messages by a participant returns the p-th page
\* of limit L, oldest first, of the messages of the conversation that the
\* caller has not deleted for themselves and that lie before the cursor,
\* and hasMore tells whether more than p*L such messages exist.
C17_Original ==
  [][FetchByParticipant =>
       ReturnedPageOf({i \in DOMAIN messages :
          /\ messages[i].conversation = last'.conv
          /\ last'.user \notin messages[i].deletedFor
          /\ BeforeCursor(i)})]_vars

\* C17 amended: the page is taken among the messages of the conversation
\* that have not been deleted for everyone, that the caller has not deleted
\* for themselves, and that lie before the cursor; of these it returns the
\* ones ranked (p-1)*L+1 .. p*L newest first, delivered oldest first, never
\* more than L, and hasMore is true exactly when more than p*L of them exist.
C17_PageOfVisibleMessages ==
  [][FetchByParticipant =>
       ReturnedPageOf({i \in DOMAIN messages :
          /\ messages[i].conversation = last'.conv
          /\ ~messages[i].isDeleted
          /\ last'.user \notin messages[i].deletedFor
          /\ BeforeCursor(i)})]_vars

\* a second page of limit one returned the older of two messages
C17_Witness ==
  /\ last.op = "chat:get_messages"
  /\ last.reply = "ok"
  /\ last.args.page = 2
  /\ Len(last.result.data) = 1
  /\ last.result.data[1].id = 1
  /\ ~last.result.hasMore

\* C19: delete-for-me of a message by U changes nothing but that message's
\* deletedFor, to which it adds U; it emits no event, and what any other
\* principal gets from fetching any conversation is the same before and
\* after.
C19_DeleteForMeIsLocal ==
  [][(last'.op = "deleteMessage" /\ ~last'.forEveryone) =>
       LET U == last'.user
           m == last'.msg
       IN /\ emitted' = <<>>
          /\ conversations' = conversations
          /\ IF last'.reply = "ok"
               THEN messages' =
                      [messages EXCEPT ![m].deletedFor = @ \cup {U}]
               ELSE messages' = messages
          /\ \A V \in Users \ {U}, c \in AllConvs, p \in Pages, L \in Limits,
                b \in BeforeDates :
               getConversationMessages(messages', c, V, p, L, b)
                 = getConversationMessages(messages, c, V, p, L, b)]_vars

\* a sender deleted their own message for themselves while the other
\* participant was connected
C19_Witness ==
  /\ last.op = "deleteMessage"
  /\ ~last.forEveryone
  /\ last.reply = "ok"
  /\ messages[last.msg].deletedFor = {last.user}
  /\ ~messages[last.msg].isDeleted
  /\ \E V \in conversations[last.conv].participants \ {last.user} :
       LiveSockets(V) # {}

\* the message a send handler has just created
JustCreated(h) ==
  /\ h.pc = "create"
  /\ SendCreate(h)
  /\ Len(messages') = Len(messages) + 1

\* the sender fetches the whole conversation right after the creation: the
\* new message comes back with the given fields, after every older message
FetchedBackAs(h, content, messageType, fileUrl) ==
  LET id == Len(messages')
      r == getConversationMessages(messages', h.conv, h.userId, 1,
                                   Len(messages'), NoDate)
  IN \E k \in DOMAIN r.data :
       /\ r.data[k].id = id
       /\ r.data[k].content = content
       /\ r.data[k].messageType = messageType
       /\ r.data[k].fileUrl = fileUrl
       /\ \A j \in DOMAIN r.data \ {k} :
            j < k /\ createdAt(r.data[j].id) < createdAt(id)

\* every fetch hands out the stored fields, oldest first
FetchReturnsStored ==
  FetchByParticipant =>
    LET data == last'.result.data IN
      /\ \A k \in DOMAIN data : data[k] = Fetched(messages, data[k].id)
      /\ \A j, k \in DOMAIN data :
           j < k => createdAt(data[j].id) < createdAt(data[k].id)

\* C18 as stated: a message created by chat:send_message and fetched back
\* through the conversation's history has the content, messageType and
\* fileUrl that were sent, and comes before any message of the conversation
\* sent after it.
C18_Original ==
  [][/\ \A h \in inflight :
          JustCreated(h) =>
            FetchedBackAs(h, h.payload.content, h.payload.messageType,
                          h.payload.fileUrl)
     /\ FetchReturnsStored]_vars

\* C18 amended: the fetched message has the messageType that was sent and
\* the content and fileUrl that were sent with leading and trailing
\* whitespace removed, and comes before any message of the conversation sent
\* after it.
C18_RoundTripUpToTrim ==
  [][/\ \A h \in inflight :
          JustCreated(h) =>
            FetchedBackAs(h, Trim(h.payload.content), h.payload.messageType,
                          Trim(h.payload.fileUrl))
     /\ FetchReturnsStored]_vars

\* a send whose content carried leading whitespace created the second
\* message of a conversation, stored without the whitespace
C18_Witness ==
  \E h \in inflight :
     /\ h.pc = "fanout"
     /\ h.payload = PaddedPayload
     /\ h.msg = 2
     /\ messages[2].content = Hi
     /\ messages[1].conversation = messages[2].conversation

Tombstoned(msgs, i) ==
  i \in DOMAIN msgs /\ msgs[i].isDeleted /\ msgs[i].content = Tombstone

\* C20: delete-for-everyone leaves the message stored, flagged deleted and
\* with the tombstone as its content, and a message in that condition stays
\* in it through every later edit, receipt and delete.
C20_TombstoneIsPermanent ==
  [][/\ (last'.op = "deleteMessage" /\ last'.forEveryone /\ last'.reply = "ok")
          => Tombstoned(messages', last'.msg)
     /\ \A i \in DOMAIN messages :
          Tombstoned(messages, i) => Tombstoned(messages', i)]_vars

(* ------------------------------------------------------------------ *)
(* Failure reporting, presence queries and membership                  *)
(* ------------------------------------------------------------------ *)
\* an error event went to connection s and to no other connection
ErrorEventOnlyTo(s) ==
  /\ \E i \in EventsNamed(emitted', "error") : emitted'[i].to = {s}
  /\ \A i \in EventsNamed(emitted', "error") : emitted'[i].to \subseteq {s}

\* C21: a chat operation that fails (missing field, caller not a
\* participant, or store error) for a client that supplied no
\* acknowledgement callback emits an error event to the calling connection
\* and to no other connection.
C21_ErrorEventWithoutCallback ==
  [][/\ \A s \in Sockets, c \in Convs, p \in SendPayloads :
          (/\ SendStart(s, c, p, FALSE)
           /\ (p.content = <<>> \/ NonParticipant(s, c)))
          => ErrorEventOnlyTo(s)
     /\ \A s \in Sockets, c \in Convs :
          (JoinRoom(s, c, FALSE) /\ NonParticipant(s, c)) => ErrorEventOnlyTo(s)
     /\ \A h \in inflight :
          (~h.cb /\ h.pc = "create" /\ SendCreate(h) /\ messages' = messages)
          => ErrorEventOnlyTo(h.sock)]_vars

\* C22: in every reachable state every stored presence status and every
\* status carried by a presence:user_status_changed broadcast is one of
\* online, away, busy, offline, whatever payload a client sends with
\* presence:status_change.
C22_StatusInEnumeration ==
  /\ \A P \in DOMAIN userStatuses : userStatuses[P] \in UserStatus
  /\ \A i \in StatusEvents(emitted) : emitted[i].status \in UserStatus

(* ------------------------------------------------------------------ *)
(* Presence queries                                                    *)
(* ------------------------------------------------------------------ *)
\* candidate id lists a client sends with presence:get_online_friends
FriendLists == {<<>>, <<"u1", "u2", "u3">>, <<"u3", "u1">>, <<"u2", "u2">>}

getOnlineUsersCount_Tabs(cu) ==
  Cardinality(UNION {cu[u].tabs : u \in DOMAIN cu})

getOnlineUsersCount(cu) == Cardinality(DOMAIN cu)

\* the user record presence:check_user answers with; a status never stored
\* reads as offline. The registry entry's lastActivity timestamp is read from
\* the same entry as the tab count and is not represented.
checkUser(cu, st, userId) ==
  [userId |-> userId,
   isOnline |-> isUserOnline(cu, userId),
   status |-> IF MapHas(st, userId) THEN st[userId] ELSE "offline",
   tabCount |-> getUserTabCount(cu, userId)]

\* one entry of the presence:get_online_friends answer; a status never
\* stored reads as online
FriendEntry(cu, st, friendId) ==
  [userId |-> friendId,
   status |-> IF MapHas(st, friendId) THEN st[friendId] ELSE "online",
   tabCount |-> getUserTabCount(cu, friendId)]

onlineFriends_NoFilter(cu, st, friendIds) ==
  [i \in DOMAIN friendIds |-> FriendEntry(cu, st, friendIds[i])]

onlineFriends(cu, st, friendIds) ==
  LET online == SelectSeq(friendIds, LAMBDA f : isUserOnline(cu, f))
  IN [i \in DOMAIN online |-> FriendEntry(cu, st, online[i])]

\* the breakdown of presence:get_stats: stored statuses that are one of its
\* three keys
statsByStatus(st) ==
  [k \in {"online", "away", "busy"} |->
     Cardinality({u \in DOMAIN st : st[u] = k})]

CheckUser(s, userId, cb) ==
  /\ sock[s].st = "open" /\ sock[s].ns = "/"
  /\ last' = Op("presence:check_user", s, sock[s].userId, None, 0, cb,
                Ack(cb, "ok"), 0)
             @@ [target |-> userId,
                 result |-> IF cb
                              THEN checkUser(connectedUsers, userStatuses, userId)
                              ELSE None]
  /\ emitted' = <<>>
  /\ UNCHANGED <<storeVars, registryVars, chatVars>>

GetOnlineFriends(s, friendIds, cb) ==
  /\ sock[s].st = "open" /\ sock[s].ns = "/"
  /\ LET found == onlineFriends(connectedUsers, userStatuses, friendIds) IN
       last' = Op("presence:get_online_friends", s, sock[s].userId, None, 0, cb,
                  Ack(cb, "ok"), 0)
               @@ [args |-> friendIds,
                   result |-> IF cb
                                THEN [onlineFriends |-> found,
                                      totalOnline |-> Len(found)]
                                ELSE None]
  /\ emitted' = <<>>
  /\ UNCHANGED <<storeVars, registryVars, chatVars>>

GetStats(s, cb) ==
  /\ sock[s].st = "open" /\ sock[s].ns = "/"
  /\ last' = Op("presence:get_stats", s, sock[s].userId, None, 0, cb,
                Ack(cb, "ok"), 0)
             @@ [result |-> IF cb
                              THEN [totalOnlineUsers |->
                                      getOnlineUsersCount(connectedUsers),
                                    byStatus |-> statsByStatus(userStatuses)]
                              ELSE None]
  /\ emitted' = <<>>
  /\ UNCHANGED <<storeVars, registryVars, chatVars>>

NextPresence ==
  \/ \E s \in Sockets, token \in Tokens : Connect(s, token)
  \/ \E s \in Sockets : Disconnect(s)
  \/ \E s \in Sockets, status \in StatusPayloads : StatusChange(s, status)
  \/ \E s \in Sockets, userId \in Users, cb \in BOOLEAN : CheckUser(s, userId, cb)
  \/ \E s \in Sockets, friendIds \in FriendLists, cb \in BOOLEAN :
       GetOnlineFriends(s, friendIds, cb)
  \/ \E s \in Sockets, cb \in BOOLEAN : GetStats(s, cb)

SpecPresence == Init /\ [][NextPresence]_vars

\* C23: presence:get_online_friends with candidate ids F returns exactly the
\* ids of F that have at least one live connection in the session registry,
\* in the order of F, each annotated with that principal's tab count from the
\* registry, and totalOnline is the number of entries returned.
C23_OnlineFriendsExact ==
  [][(last'.op = "presence:get_online_friends" /\ last'.cb) =>
       LET F == last'.args
           R == last'.result
           online == SelectSeq(F, LAMBDA f : LiveSockets(f) # {})
       IN /\ Len(R.onlineFriends) = Len(online)
          /\ \A i \in DOMAIN online :
               /\ R.onlineFriends[i].userId = online[i]
               /\ R.onlineFriends[i].tabCount = Cardinality(LiveSockets(online[i]))
               /\ R.onlineFriends[i].tabCount =
                    Cardinality(connectedUsers[online[i]].tabs)
          /\ R.totalOnline = Len(R.onlineFriends)]_vars

\* a query over three candidates, one with two tabs and one offline, has
\* been answered
C23_Witness ==
  /\ last.op = "presence:get_online_friends" /\ last.cb
  /\ Len(last.args) = 3
  /\ Len(last.result.onlineFriends) < 3
  /\ \E i \in DOMAIN last.result.onlineFriends :
       last.result.onlineFriends[i].tabCount = 2

\* C24: chat:typing by a participant A of conversation C writes nothing to
\* the message store and emits chat:user_typing, carrying A's identity and
\* the isTyping flag, to every other participant of C and to no connection
\* of A; issued by a non-participant it emits nothing to anyone and returns
\* no error.
C24_TypingIsEphemeral ==
  [][\A s \in Sockets, c \in Convs, isTyping \in BOOLEAN :
       Typing(s, c, isTyping) =>
         LET A == sock[s].userId IN
           /\ messages' = messages /\ conversations' = conversations
           /\ storeOps' = storeOps /\ receiptOps' = receiptOps
           /\ last'.reply = None
           /\ EventsNamed(emitted', "error") = {}
           /\ IF A \in conversations[c].participants
                THEN /\ FannedOutTo(emitted', "chat:user_typing",
                                    conversations[c].participants \ {A}, 0)
                     /\ Len(emitted') =
                          Cardinality(conversations[c].participants \ {A})
                     /\ \A i \in DOMAIN emitted' :
                          /\ emitted'[i].userId = A
                          /\ emitted'[i].conv = c
                          /\ emitted'[i].status =
                               (IF isTyping THEN "typing" ELSE "idle")
                          /\ emitted'[i].to \cap LiveSockets(A) = {}
                ELSE emitted' = <<>>]_vars

\* a participant with two tabs announced typing while the other participant
\* was connected and received the event
C24_Witness ==
  /\ last.op = "chat:typing"
  /\ last.user \in conversations[last.conv].participants
  /\ Cardinality(LiveSockets(last.user)) = 2
  /\ Len(emitted) = 1
  /\ emitted[1].event = "chat:user_typing"
  /\ emitted[1].to # {}

\* the handler that just ran was a receipt operation issued by a principal
\* who is not a participant of the conversation of the message it names
ReceiptByOutsider ==
  \/ /\ last'.op \in {"chat:message_delivered", "chat:message_read"}
     /\ last'.msg \in DOMAIN messages
     /\ last'.user \notin
          conversations[messages[last'.msg].conversation].participants
  \/ /\ last'.op = "chat:mark_conversation_read"
     /\ last'.user \notin conversations[last'.conv].participants

\* C25: chat:message_delivered, chat:message_read and
\* chat:mark_conversation_read are refused for a principal who is not a
\* participant of the message's conversation: the principal is added to no
\* deliveredTo or readBy, no message status changes and no receipt event is
\* emitted.
C25_ReceiptsNeedMembership ==
  [][ReceiptByOutsider =>
       /\ messages' = messages
       /\ emitted' = <<>>
       /\ (last'.cb => last'.reply # "ok")]_vars

\* C26: under any interleaving of chat:send_message with the removal of the
\* sender from the conversation, a message is created only if the sender is
\* still a participant when it is created (only created messages are fanned
\* out): no stored message has a sender who was not a participant of its
\* conversation at creation time.
C26_SenderParticipantAtCreation ==
  [][\A h \in inflight :
       JustCreated(h) => h.userId \in conversations[h.conv].participants]_vars

(* ------------------------------------------------------------------ *)
(* Automatic offline transition                                        *)
(* ------------------------------------------------------------------ *)
\* principals connect only while no status is stored for them, so a stored
\* status of a connected principal was set by that principal with
\* presence:status_change and not by an earlier automatic transition
NextLastTab ==
  \/ \E s \in Sockets, u \in Users :
       ~MapHas(userStatuses, u) /\ Connect(s, [kind |-> "valid", id |-> u])
  \/ \E s \in Sockets : Disconnect(s)
  \/ \E s \in Sockets, status \in StatusPayloads : StatusChange(s, status)

SpecLastTab == Init /\ [][NextLastTab]_vars

\* C27: if principal P's stored presence status is already offline, set by P,
\* when P's last tab disconnects, the tracker performs no status transition
\* and broadcasts no presence:user_status_changed event.
C27_NoBroadcastWhenAlreadyOffline ==
  [][(/\ last'.op = "disconnect"
      /\ connectedUsers[last'.user].tabs = {last'.sock}
      /\ MapHas(userStatuses, last'.user)
      /\ userStatuses[last'.user] = "offline")
     => /\ userStatuses' = userStatuses
        /\ StatusEvents(emitted') = {}]_vars

\* C28: a successful admin:kick_user on principal P destroys P's
\* connections: after the kick P's tabs are gone from the session registry,
\* P is no longer online and none of P's sockets is still open.
C28_KickDestroysConnections ==
  [][(last'.op = "admin:kick_user" /\ LiveSockets(last'.target) # {}) =>
       /\ ~isUserOnline(connectedUsers', last'.target)
       /\ ~MapHas(userSockets', last'.target)
       /\ \A s \in Sockets :
            ~(sock'[s].st = "open" /\ sock'[s].ns = "/"
                /\ sock'[s].userId = last'.target)]_vars

\* principals with a socket that is open on the default channel in the
\* state after the step
LiveAfter ==
  {P \in Users : \E s \in Sockets :
     sock'[s].st = "open" /\ sock'[s].ns = "/" /\ sock'[s].userId = P}

\* C29: presence:get_stats returns totalOnlineUsers equal to the number of
\* principals with at least one live connection and a byStatus breakdown
\* counting exactly the principals whose stored status is online, away or
\* busy; in every reachable state each principal counted in the breakdown
\* has a live connection, so the breakdown's sum never exceeds
\* totalOnlineUsers.
C29_StatsCountLivePrincipals ==
  [][/\ (last'.op = "presence:get_stats" /\ last'.cb) =>
          LET R == last'.result IN
            /\ R.totalOnlineUsers =
                 Cardinality({P \in Users : LiveSockets(P) # {}})
            /\ \A k \in {"online", "away", "busy"} :
                 R.byStatus[k] =
                   Cardinality({P \in Users : /\ MapHas(userStatuses, P)
                                              /\ userStatuses[P] = k})
            /\ R.byStatus["online"] + R.byStatus["away"] + R.byStatus["busy"]
                 <= R.totalOnlineUsers
     /\ \A P \in DOMAIN userStatuses' :
          userStatuses'[P] \in {"online", "away", "busy"} => P \in LiveAfter]_vars

\* statistics were answered while one of two connected principals had set
\* away, the other had stored no status, and a third had gone offline
C29_Witness ==
  /\ last.op = "presence:get_stats" /\ last.cb
  /\ last.result.totalOnlineUsers = 2
  /\ last.result.byStatus["away"] = 1
  /\ last.result.byStatus["online"] = 0 /\ last.result.byStatus["busy"] = 0
  /\ \E P \in DOMAIN userStatuses :
       userStatuses[P] = "offline" /\ ~isUserOnline(connectedUsers, P)

\* the status presence:get_online_friends reports for one online principal
FriendStatus(cu, st, P) == onlineFriends(cu, st, <<P>>)[1].status

\* C30: presence:check_user and presence:get_online_friends never report a
\* principal that has a live connection with status offline unless that
\* principal set offline itself since its most recent connection: right
\* after P connects its first tab, neither query answers offline for P, also
\* when P had disconnected all tabs before; and both queries report the same
\* status for the same online principal.
C30_OnlineNeverReportedOffline ==
  [][/\ (/\ last'.op = "connect" /\ last'.reply = "ok"
          /\ ~isUserOnline(connectedUsers, last'.user)) =>
          LET P == last'.user IN
            /\ checkUser(connectedUsers', userStatuses', P).isOnline
            /\ checkUser(connectedUsers', userStatuses', P).status # "offline"
            /\ FriendStatus(connectedUsers', userStatuses', P) # "offline"
     /\ \A P \in Users :
          isUserOnline(connectedUsers', P) =>
            checkUser(connectedUsers', userStatuses', P).status
              = FriendStatus(connectedUsers', userStatuses', P)]_vars

====
